---- MODULE Spec2Model ----
(***************************************************************************)
(* Image-to-video generator: the browser page (upload, submit, poll) and   *)
(* the two API routes (POST /api/video/generate, GET /api/video/status).   *)
(*                                                                         *)
(* Text is modelled as a sequence of tokens, so that a prefix test         *)
(* (String.prototype.startsWith) is a computation on the value.  The empty *)
(* sequence stands for the falsy text values (null, undefined, "").        *)
(***************************************************************************)
EXTENDS Integers, Sequences, FiniteSets, TLC

\* ------------------------------------------------------------------ bounds
\* files accepted for reading in one session
MaxUploads == 2
\* file reads pending at once
MaxReaders == 1
\* generation requests submitted in one session
MaxTasks == 2
\* under Spec a poll timer fires only while the loop's pollCount is at most this
PollWindow == 2
\* requests a route module handles in one run, all of which may overlap
MaxRequests == 2

\* ------------------------------------------------------- program constants
maxPolls == 200
pollInterval == 3000
MaxFileSize == 10 * 1024 * 1024

\* ------------------------------------------------------------------- text
StartsWith(s, p) ==
    /\ Len(s) >= Len(p)
    /\ SubSeq(s, 1, Len(p)) = p

ImagePrefix == <<"image/">>
DataImagePrefix == <<"data:", "image/">>

\* FileReader.readAsDataURL: data:<type>;base64,<content>
readAsDataURL(file) == <<"data:">> \o file.type \o <<";base64,">> \o file.content

\* The files a user may offer: two acceptable images (one of exactly the size
\* limit), an image one byte over the limit, a small text file, a large text file.
Files ==
    { [type |-> <<"image/", "png">>,  size |-> 1024,            content |-> <<"A">>],
      [type |-> <<"image/", "webp">>, size |-> MaxFileSize,     content |-> <<"B">>],
      [type |-> <<"image/", "png">>,  size |-> MaxFileSize + 1, content |-> <<"C">>],
      [type |-> <<"text/", "plain">>, size |-> 1024,            content |-> <<"D">>],
      [type |-> <<"text/", "plain">>, size |-> MaxFileSize + 1, content |-> <<"E">>] }

NoImage == <<>>
NoUrl == <<>>
NoTask == 0
NoMinutes == <<>>

Tasks == 1..MaxTasks

\* --------------------------------------------------------------- messages
\* A message is a text with an optional elapsed-minutes figure <<int, tenth>>.
Msg(text) == [text |-> text, minutes |-> NoMinutes]
MsgMin(text, m) == [text |-> text, minutes |-> m]
NoMsg == Msg("")

Toast(variant, title, description) ==
    [variant |-> variant, title |-> title, description |-> description]
NoToast == Toast("", "", NoMsg)

\* -------------------------------------------------------------- JS values
\* A value of a JSON request body: its type, and its text or its number.
Undefined == [t |-> "undefined", s |-> <<>>, n |-> 0]
Null == [t |-> "null", s |-> <<>>, n |-> 0]
Str(s) == [t |-> "string", s |-> s, n |-> 0]
Num(n) == [t |-> "number", s |-> <<>>, n |-> n]

\* ToBoolean
Truthy(v) ==
    \/ v.t = "string" /\ v.s # <<>>
    \/ v.t = "number" /\ v.n # 0

\* a || b
OrElse(a, b) == IF Truthy(a) THEN a ELSE b

\* ------------------------------------------------------ route: responses
\* NextResponse.json(body, {status}): the fields a route does not set are empty.
Response(code, error, success, tid, status, videoUrl) ==
    [code |-> code, error |-> error, success |-> success, taskId |-> tid,
     status |-> status, videoUrl |-> videoUrl]

ErrorResponse(code, error) == Response(code, error, FALSE, NoTask, "", NoUrl)

\* What a provider call throws: an Error carrying a message, or a value that is
\* no Error.
Thrown(isError, message) == [isError |-> isError, message |-> message]
ProviderThrows == {Thrown(TRUE, "quota exceeded"), Thrown(FALSE, "")}

\* ------------------------------------------- route: POST /api/video/generate
DefaultPrompt == <<"Make this image come alive with smooth, loopable motion">>
DefaultQuality == <<"speed">>
DefaultDuration == 5
DefaultFps == 30
DefaultSize == <<"1024x1024">>

\* A parsed request body.  kind "malformed": request.json() throws;
\* kind "null": the JSON value null, which cannot be destructured.
Body(imageData, prompt, quality, duration, fps, size) ==
    [kind |-> "object", imageData |-> imageData, prompt |-> prompt,
     quality |-> quality, duration |-> duration, fps |-> fps, size |-> size]
MalformedBody ==
    [Body(Undefined, Undefined, Undefined, Undefined, Undefined, Undefined)
        EXCEPT !.kind = "malformed"]
NullBody ==
    [Body(Undefined, Undefined, Undefined, Undefined, Undefined, Undefined)
        EXCEPT !.kind = "null"]

NoResponse == ErrorResponse(0, "")

\* catch (error): 500 with error.message, or the generic text when the thrown
\* value is no Error
generateCatch(thrown) ==
    ErrorResponse(500, IF thrown.isError THEN thrown.message
                       ELSE "Failed to create video generation task")

\* generateValidate with the test that imageData is there left out
generateValidateNoRequired(body) ==
    IF body.kind = "malformed"
    THEN generateCatch(Thrown(TRUE, "Unexpected end of JSON input"))
    ELSE IF body.kind = "null"
    THEN generateCatch(Thrown(TRUE, "Cannot destructure property of null"))
    ELSE IF body.imageData.t # "string"
    THEN generateCatch(Thrown(TRUE, "imageData.startsWith is not a function"))
    ELSE IF ~StartsWith(body.imageData.s, DataImagePrefix)
    THEN ErrorResponse(400, "Invalid image data format")
    ELSE NoResponse

\* request.json(), the destructuring and the two validations: the response that
\* ends the request before any provider call, or NoResponse when the request
\* goes on.  startsWith on a truthy value that is no string throws a TypeError.
generateValidate(body) ==
    IF body.kind = "malformed"
    THEN generateCatch(Thrown(TRUE, "Unexpected end of JSON input"))
    ELSE IF body.kind = "null"
    THEN generateCatch(Thrown(TRUE, "Cannot destructure property of null"))
    ELSE IF ~Truthy(body.imageData)
    THEN ErrorResponse(400, "Image data is required")
    ELSE IF body.imageData.t # "string"
    THEN generateCatch(Thrown(TRUE, "imageData.startsWith is not a function"))
    ELSE IF ~StartsWith(body.imageData.s, DataImagePrefix)
    THEN ErrorResponse(400, "Invalid image data format")
    ELSE NoResponse

\* a ?? b
Nullish(a, b) == IF a.t \in {"undefined", "null"} THEN b ELSE a

\* generateParams with the defaults applied by ?? in place of ||
generateParamsNullish(body) ==
    [image_url |-> body.imageData,
     prompt |-> Nullish(body.prompt, Str(DefaultPrompt)),
     quality |-> Nullish(body.quality, Str(DefaultQuality)),
     duration |-> Nullish(body.duration, Num(DefaultDuration)),
     fps |-> Nullish(body.fps, Num(DefaultFps)),
     size |-> Nullish(body.size, Str(DefaultSize))]

\* the argument of zai.video.generations.create
generateParams(body) ==
    [image_url |-> body.imageData,
     prompt |-> OrElse(body.prompt, Str(DefaultPrompt)),
     quality |-> OrElse(body.quality, Str(DefaultQuality)),
     duration |-> OrElse(body.duration, Num(DefaultDuration)),
     fps |-> OrElse(body.fps, Num(DefaultFps)),
     size |-> OrElse(body.size, Str(DefaultSize))]

\* the provider's task: { id, task_status }
ProviderTask(id, status) == [id |-> id, task_status |-> status]

generateSuccess(task) == Response(200, "", TRUE, task.id, task.task_status, NoUrl)

\* --------------------------------------------- route: GET /api/video/status
\* The provider's query result: task_status and the four places a result URL
\* may be in.  video_result is the list of the entries' url fields.
QueryResult(status, video_result, video_url, url, video) ==
    [task_status |-> status, video_result |-> video_result,
     video_url |-> video_url, url |-> url, video |-> video]

\* resolveVideoUrl with the flat field video_url tried before the wrapped list
resolveVideoUrlFlatFirst(result) ==
    LET wrapped == IF result.video_result = <<>> THEN NoUrl
                   ELSE Head(result.video_result)
    IN  IF result.video_url # NoUrl THEN result.video_url
        ELSE IF wrapped # NoUrl THEN wrapped
        ELSE IF result.url # NoUrl THEN result.url
        ELSE result.video

\* result.video_result?.[0]?.url || result.video_url || result.url || result.video
resolveVideoUrl(result) ==
    LET wrapped == IF result.video_result = <<>> THEN NoUrl
                   ELSE Head(result.video_result)
    IN  IF wrapped # NoUrl THEN wrapped
        ELSE IF result.video_url # NoUrl THEN result.video_url
        ELSE IF result.url # NoUrl THEN result.url
        ELSE result.video

\* statusCatch with the thrown Error's message dropped
statusCatchGeneric(thrown) ==
    ErrorResponse(500, "Failed to query video generation status")

\* catch (error): 500 with error.message, or the generic text when the thrown
\* value is no Error
statusCatch(thrown) ==
    ErrorResponse(500, IF thrown.isError THEN thrown.message
                       ELSE "Failed to query video generation status")

\* statusValidate with the taskId check left out
statusValidateNone(tid) == NoResponse

\* the taskId check: the 400, or NoResponse when the request goes on.  NoTask
\* stands for both falsy values of searchParams.get('taskId'): null (no such
\* parameter) and the empty text.
statusValidate(tid) ==
    IF tid = NoTask THEN ErrorResponse(400, "Task ID is required") ELSE NoResponse

\* statusSuccess with the location resolved whatever the status is
statusSuccessAnyStatus(tid, result) ==
    Response(200, "", FALSE, tid, result.task_status, resolveVideoUrl(result))

\* the 200 response: taskId, status, and videoUrl when SUCCESS resolved one
statusSuccess(tid, result) ==
    Response(200, "", FALSE, tid, result.task_status,
             IF result.task_status = "SUCCESS" THEN resolveVideoUrl(result) ELSE NoUrl)

\* ------------------------------------------------------------ page state
VARIABLES
    uploadedImage,      \* useState<string|null>: the data URL of the accepted image
    generatedVideoUrl,  \* useState<string|null>
    taskId,             \* useState<string|null>
    generateState,      \* useState<GenerateState>
    readers,            \* the files of the FileReaders whose onloadend has not
                        \* run yet, in the order the reads were started
    nUploads,           \* file reads started so far
    gen,                \* per generation request: its position, the poll loop's
                        \* pollCount, the body of the POST while it is outstanding
    nSubmit,            \* generation requests submitted so far
    toast,              \* the notification the last step raised (NoToast: none)
    event,              \* the input of the last step: the file offered to an
                        \* upload handler, or the answer delivered for a task
                        \* (NoEvent: neither)
    \* history of the generations in flight, dropped when a generation ends
    queries,            \* status queries issued for the task so far
    estimate,           \* the progress estimate written last for the task
    cancelled,          \* where the generation was when resetUpload last ran
                        \* during it ("" when it never did)
    superseded          \* generations during which an upload completed

pageVars == <<uploadedImage, generatedVideoUrl, taskId, generateState, readers,
              nUploads, gen, nSubmit, toast, event, queries, estimate, cancelled,
              superseded>>

\* progress is kept in twentieths of a percent point: 70/200 = 7/20 per poll
Pct(n) == n * 20

GState(up, g, p, progress, status) ==
    [isUploading |-> up, isGenerating |-> g, isPolling |-> p,
     progress |-> progress, status |-> status]

IdleState == GState(FALSE, FALSE, FALSE, Pct(0), NoMsg)

\* a generation that holds no request body (not submitted yet, or answered)
NoBody ==
    [Body(Undefined, Undefined, Undefined, Undefined, Undefined, Undefined)
        EXCEPT !.kind = "none"]

Gen(pc, pollCount, body) == [pc |-> pc, pollCount |-> pollCount, body |-> body]

NoFile == [type |-> <<>>, size |-> 0, content |-> <<>>]
NoReply == [rejected |-> FALSE, resp |-> NoResponse]

Event(op, file, task, reply) == [op |-> op, file |-> file, task |-> task, reply |-> reply]
NoEvent == Event("", NoFile, NoTask, NoReply)

PageInit ==
    /\ uploadedImage = NoImage
    /\ generatedVideoUrl = NoUrl
    /\ taskId = NoTask
    /\ generateState = IdleState
    /\ readers = <<>>
    /\ nUploads = 0
    /\ gen = [t \in Tasks |-> Gen("idle", 0, NoBody)]
    /\ nSubmit = 0
    /\ toast = NoToast
    /\ event = NoEvent
    /\ queries = [t \in Tasks |-> 0]
    /\ estimate = [t \in Tasks |-> 0]
    /\ cancelled = [t \in Tasks |-> ""]
    /\ superseded = {}

InFlight(t) == gen[t].pc \in {"posting", "fetching", "timer"}

\* The generation ends: its closure is gone and its history is dropped.
EndGen(t) ==
    /\ gen' = [gen EXCEPT ![t] = Gen("done", 0, NoBody)]
    /\ queries' = [queries EXCEPT ![t] = 0]
    /\ estimate' = [estimate EXCEPT ![t] = 0]
    /\ cancelled' = [cancelled EXCEPT ![t] = ""]
    /\ superseded' = superseded \ {t}

genVars == <<gen, nSubmit, queries, estimate, cancelled, superseded>>

\* ---------------------------------------------------------------- upload
\* The drop zone and the file input are rendered only while no image is held.
UploadZoneShown == uploadedImage = NoImage

\* reader.readAsDataURL(file)
StartReader(file) ==
    /\ nUploads < MaxUploads
    /\ Len(readers) < MaxReaders
    /\ readers' = Append(readers, file)
    /\ nUploads' = nUploads + 1
    /\ toast' = NoToast

Reject(title, description) ==
    /\ toast' = Toast("destructive", title, Msg(description))
    /\ UNCHANGED <<readers, nUploads>>

handleImageUpload(file) ==
    /\ UploadZoneShown
    /\ IF file.size > MaxFileSize
       THEN Reject("File too large", "Please upload an image smaller than 10MB")
       ELSE IF ~StartsWith(file.type, ImagePrefix)
       THEN Reject("Invalid file type", "Please upload an image file (JPEG, PNG, WebP)")
       ELSE StartReader(file)
    /\ event' = Event("handleImageUpload", file, NoTask, NoReply)
    /\ UNCHANGED <<uploadedImage, generatedVideoUrl, taskId, generateState, genVars>>

handleDrop(file) ==
    /\ UploadZoneShown
    /\ IF StartsWith(file.type, ImagePrefix)
       THEN IF file.size > MaxFileSize
            THEN Reject("File too large", "Please upload an image smaller than 10MB")
            ELSE StartReader(file)
       ELSE /\ toast' = NoToast
            /\ UNCHANGED <<readers, nUploads>>
    /\ event' = Event("handleDrop", file, NoTask, NoReply)
    /\ UNCHANGED <<uploadedImage, generatedVideoUrl, taskId, generateState, genVars>>

\* reader.onloadend of either handler, for the i-th pending read
onloadend(i) ==
    /\ i \in 1..Len(readers)
    /\ readers' = SubSeq(readers, 1, i - 1) \o SubSeq(readers, i + 1, Len(readers))
    /\ uploadedImage' = readAsDataURL(readers[i])
    /\ generatedVideoUrl' = NoUrl
    /\ taskId' = NoTask
    /\ generateState' = IdleState
    /\ toast' = Toast("", "Image uploaded",
                      Msg("Your image is ready to be transformed into a video"))
    /\ event' = NoEvent
    /\ superseded' = superseded \cup {t \in Tasks : InFlight(t)}
    /\ UNCHANGED <<nUploads, gen, nSubmit, queries, estimate, cancelled>>

\* The reset button is rendered on the image preview, so only while an image is held.
ResetShown == uploadedImage # NoImage

resetUpload ==
    /\ ResetShown
    /\ uploadedImage' = NoImage
    /\ generatedVideoUrl' = NoUrl
    /\ taskId' = NoTask
    /\ generateState' = IdleState
    /\ toast' = NoToast
    /\ event' = NoEvent
    /\ cancelled' = [t \in Tasks |-> IF InFlight(t) THEN gen[t].pc ELSE cancelled[t]]
    /\ UNCHANGED <<readers, nUploads, gen, nSubmit, queries, estimate, superseded>>

\* -------------------------------------------------------------- generate
\* The controls' values; the text of the number selects is a digit sequence.
Settings ==
    { [prompt |-> DefaultPrompt, quality |-> <<"speed">>, duration |-> <<5>>,
       fps |-> <<3, 0>>, resolution |-> <<"1024x1024">>],
      [prompt |-> <<>>, quality |-> <<"quality">>, duration |-> <<1, 0>>,
       fps |-> <<6, 0>>, resolution |-> <<"1920x1080">>] }

RECURSIVE parseInt(_)
parseInt(digits) ==
    IF digits = <<>> THEN 0
    ELSE 10 * parseInt(SubSeq(digits, 1, Len(digits) - 1)) + digits[Len(digits)]

\* JSON.stringify({imageData: uploadedImage, prompt, quality, duration, fps, size})
requestBody(st) ==
    Body(Str(uploadedImage), Str(st.prompt), Str(st.quality),
         Num(parseInt(st.duration)), Num(parseInt(st.fps)), Str(st.resolution))

\* What a fetch gives the page: a response, or a rejection (no response at all).
Answered(resp) == [rejected |-> FALSE, resp |-> resp]
Rejected == [rejected |-> TRUE, resp |-> NoResponse]

\* response.ok
Ok(resp) == resp.code >= 200 /\ resp.code <= 299

\* the status the provider gives a task it has just created
InitialStatuses == {"PENDING", "PROCESSING"}

\* Every answer the generate route can give to the body, over the provider's
\* behaviours; the provider names the task s.
submitReplies(s, body) ==
    LET early == generateValidate(body)
    IN  IF early # NoResponse THEN {Answered(early), Rejected}
        ELSE {Answered(generateSuccess(ProviderTask(s, st))) : st \in InitialStatuses}
             \cup {Answered(generateCatch(e)) : e \in ProviderThrows}
             \cup {Rejected}

\* The Generate button is disabled while no image is held or a generation runs.
GenerateEnabled == uploadedImage # NoImage /\ ~generateState.isGenerating

\* HasImage with the test left out
HasImageAlways == TRUE

\* the handler's own test: if (!uploadedImage) { toast; return }
HasImage == uploadedImage # NoImage

\* generateVideo up to its await: with no image the notice and nothing else;
\* with one, the state update and the POST
generateVideo(st) ==
    /\ event' = Event("generateVideo", NoFile, NoTask, NoReply)
    /\ IF ~HasImage
       THEN /\ toast' = Toast("destructive", "No image uploaded",
                              Msg("Please upload an image first"))
            /\ UNCHANGED <<generateState, genVars>>
       ELSE /\ nSubmit < MaxTasks
            /\ nSubmit' = nSubmit + 1
            /\ generateState' = GState(TRUE, TRUE, FALSE, Pct(10),
                                       Msg("Creating video generation task..."))
            /\ gen' = [gen EXCEPT ![nSubmit + 1] = Gen("posting", 0, requestBody(st))]
            /\ toast' = NoToast
            /\ UNCHANGED <<queries, estimate, cancelled, superseded>>
    /\ UNCHANGED <<uploadedImage, generatedVideoUrl, taskId, readers, nUploads>>

FailedToast(description) == Toast("destructive", "Generation failed", description)

\* error instanceof Error ? error.message : 'Failed to generate video', for
\* an Error thrown with the text (data.error || fallback)
ErrorText(error, fallback) == IF error # "" THEN error ELSE fallback

\* generateVideo after its await: the answer to the POST
submitResponse(s, reply) ==
    /\ gen[s].pc = "posting"
    /\ reply \in submitReplies(s, gen[s].body)
    /\ event' = Event("submitResponse", NoFile, s, reply)
    /\ IF ~reply.rejected /\ Ok(reply.resp)
       THEN /\ taskId' = reply.resp.taskId
            /\ generateState' = [generateState EXCEPT
                                    !.isUploading = FALSE, !.isPolling = TRUE,
                                    !.progress = Pct(20),
                                    !.status = Msg("Task created. Starting video generation...")]
            \* pollForResults(data.taskId): the first poll() issues its query
            /\ gen' = [gen EXCEPT ![s] = Gen("fetching", 0, NoBody)]
            /\ queries' = [queries EXCEPT ![s] = @ + 1]
            /\ estimate' = [estimate EXCEPT ![s] = Pct(20)]
            /\ toast' = NoToast
            /\ UNCHANGED <<cancelled, superseded>>
       ELSE /\ generateState' = IdleState
            /\ toast' = FailedToast(Msg(
                   IF reply.rejected THEN "Failed to fetch"
                   ELSE ErrorText(reply.resp.error,
                                  "Failed to create video generation task")))
            /\ EndGen(s)
            /\ UNCHANGED taskId
    /\ UNCHANGED <<uploadedImage, generatedVideoUrl, readers, nUploads, nSubmit>>

\* ------------------------------------------------------------------ poll
\* The odd poll counts k whose quotient k*3000/60000, as an IEEE-754 double,
\* lies below the exact k/20, so that toFixed(1) rounds the half down.
HalfRoundsDown ==
    {3, 7, 17, 19, 23, 29, 33, 39, 41, 43, 51, 53, 61, 63, 71, 73, 81, 87, 91,
     97, 101, 107, 111, 117, 121, 127, 131, 137, 141, 147, 151, 157, 167, 169,
     177, 179, 187, 189, 197, 199}

\* ((pollCount * pollInterval) / 60000).toFixed(1), as <<integer part, tenth>>
elapsedMinutes(pollCount) ==
    LET num == pollCount * pollInterval * 10
        q == num \div 60000
        r == num % 60000
        tenths == IF 2 * r > 60000 THEN q + 1
                  ELSE IF 2 * r < 60000 THEN q
                  ELSE IF pollCount \in HalfRoundsDown THEN q ELSE q + 1
    IN  <<tenths \div 10, tenths % 10>>

Min(a, b) == IF a <= b THEN a ELSE b

\* the interpolation run toward 110, with the cap left out
pollProgressUncapped(pollCount) == Pct(20) + (pollCount * Pct(90)) \div maxPolls

\* Math.min(20 + (pollCount / maxPolls) * 70, 90)
pollProgress(pollCount) ==
    Min(Pct(20) + (pollCount * Pct(70)) \div maxPolls, Pct(90))

\* the provider's answers to a status query for task t
VideoUrlOf(t) == <<"https://provider/video/", t>>

QueryResults(t) ==
    {QueryResult(st, <<>>, NoUrl, NoUrl, NoUrl) :
        st \in {"PENDING", "PROCESSING", "SUCCESS", "FAIL"}}
    \cup {QueryResult(st, <<VideoUrlOf(t)>>, NoUrl, NoUrl, NoUrl) :
        st \in {"PENDING", "PROCESSING", "SUCCESS", "FAIL"}}
    \cup {QueryResult("SUCCESS", <<>>, VideoUrlOf(t), NoUrl, NoUrl),
          QueryResult("SUCCESS", <<>>, NoUrl, VideoUrlOf(t), NoUrl),
          QueryResult("SUCCESS", <<>>, NoUrl, NoUrl, VideoUrlOf(t))}

\* Every answer the status route can give for task t, over the provider's behaviours.
statusReplies(t) ==
    LET early == statusValidate(t)
    IN  IF early # NoResponse THEN {Answered(early), Rejected}
        ELSE {Answered(statusSuccess(t, res)) : res \in QueryResults(t)}
             \cup {Answered(statusCatch(e)) : e \in ProviderThrows}
             \cup {Rejected}

TimedOutText ==
    "Video generation timed out after %s minutes. Please try again or use \"speed\" mode for faster generation."

\* pollCatch with the progress left as it was
pollCatchKeepsProgress(t, description) ==
    /\ generateState' = [IdleState EXCEPT !.progress = generateState.progress]
    /\ toast' = FailedToast(description)
    /\ EndGen(t)
    /\ UNCHANGED generatedVideoUrl

\* the catch block of poll
pollCatch(t, description) ==
    /\ generateState' = IdleState
    /\ toast' = FailedToast(description)
    /\ EndGen(t)
    /\ UNCHANGED generatedVideoUrl

\* Resolved with the test of the URL left out
ResolvedWithoutUrl(data) == data.status = "SUCCESS"

\* data.status === 'SUCCESS' && data.videoUrl
Resolved(data) == data.status = "SUCCESS" /\ data.videoUrl # NoUrl

\* MayReschedule with the ceiling left out
MayRescheduleAlways(pollCount) == TRUE

\* if (pollCount < maxPolls): another attempt is allowed below the ceiling
MayReschedule(pollCount) == pollCount < maxPolls

\* poll after its await: the answer to the status query
pollResponse(t, reply) ==
    /\ gen[t].pc = "fetching"
    /\ reply \in statusReplies(t)
    /\ event' = Event("pollResponse", NoFile, t, reply)
    /\ LET pollCount == gen[t].pollCount
           data == reply.resp
           elapsed == elapsedMinutes(pollCount)
       IN  IF reply.rejected
           THEN pollCatch(t, Msg("Failed to fetch"))
           ELSE IF ~Ok(data)
           THEN pollCatch(t, Msg(ErrorText(data.error, "Failed to check status")))
           ELSE IF Resolved(data)
           THEN /\ generatedVideoUrl' = data.videoUrl
                /\ generateState' = GState(FALSE, FALSE, FALSE, Pct(100),
                                           Msg("Video generated successfully!"))
                /\ toast' = Toast("", "Success!",
                                  Msg("Your animated video has been generated"))
                /\ EndGen(t)
           ELSE IF data.status = "FAIL"
           THEN pollCatch(t, Msg("Video generation failed"))
           ELSE IF MayReschedule(pollCount)
           THEN /\ generateState' =
                       [generateState EXCEPT
                           !.progress = pollProgress(pollCount),
                           !.status = IF data.status = "PROCESSING"
                                      THEN MsgMin("Generating your animated video... (%s minutes elapsed)",
                                                  elapsed)
                                      ELSE Msg("Almost done...")]
                /\ gen' = [gen EXCEPT ![t] = Gen("timer", pollCount + 1, NoBody)]
                /\ estimate' = [estimate EXCEPT ![t] = pollProgress(pollCount)]
                /\ toast' = NoToast
                /\ UNCHANGED <<generatedVideoUrl, queries, cancelled, superseded>>
           ELSE pollCatch(t, MsgMin(TimedOutText, elapsed))
    /\ UNCHANGED <<uploadedImage, taskId, readers, nUploads, nSubmit>>

\* setTimeout(poll, pollInterval) fires: poll() issues its query
pollTimer(t) ==
    /\ gen[t].pc = "timer"
    /\ gen' = [gen EXCEPT ![t] = [@ EXCEPT !.pc = "fetching"]]
    /\ queries' = [queries EXCEPT ![t] = @ + 1]
    /\ toast' = NoToast
    /\ event' = NoEvent
    /\ UNCHANGED <<uploadedImage, generatedVideoUrl, taskId, generateState, readers,
                   nUploads, nSubmit, estimate, cancelled, superseded>>

\* ---------------------------------------------------------- route modules
VARIABLES
    zaiInstance,   \* per route module: the cached client handle, 0 while unset
    nCreated,      \* client handles ZAI.create() has returned so far
    req            \* per request: route, position, input, handle, response

routeVars == <<zaiInstance, nCreated, req>>

Routes == {"generate", "status"}
Requests == 1..MaxRequests

NoParams ==
    [image_url |-> Undefined, prompt |-> Undefined, quality |-> Undefined,
     duration |-> Undefined, fps |-> Undefined, size |-> Undefined]

NoResult == QueryResult("", <<>>, NoUrl, NoUrl, NoUrl)

\* what a request holds while no provider call of it has thrown
NoThrow == Thrown(FALSE, "none")

\* creates, calls, result, failed: history, the ZAI.create() calls and the
\* generation or query calls the request has made, the result the provider
\* gave its query, and what a provider call of it threw
IdleReq ==
    [route |-> "", pc |-> "idle", body |-> NoBody, tid |-> NoTask, zai |-> 0,
     params |-> NoParams, response |-> NoResponse, creates |-> 0, calls |-> 0,
     result |-> NoResult, failed |-> NoThrow]

RouteInit ==
    /\ zaiInstance = [m \in Routes |-> 0]
    /\ nCreated = 0
    /\ req = [r \in Requests |-> IdleReq]

\* route's catch block
routeCatch(route, thrown) ==
    IF route = "generate" THEN generateCatch(thrown) ELSE statusCatch(thrown)

\* The request answers and its handler ends.
Respond(r, response) ==
    /\ req' = [req EXCEPT ![r] = [@ EXCEPT !.pc = "responded", !.response = response]]
    /\ UNCHANGED <<zaiInstance, nCreated>>

\* The provider call of the route, made on the handle zai: the generation
\* submission with the normalized parameters, or the result query.
CallProvider(r, zai) ==
    req' = [req EXCEPT ![r] =
               [@ EXCEPT !.pc = "calling", !.zai = zai, !.calls = @ + 1,
                         !.params = IF req[r].route = "generate"
                                    THEN generateParams(req[r].body)
                                    ELSE NoParams]]

\* getZAIInstance up to its await: with no cached handle ZAI.create() is called
\* and awaited; with one, the handler goes on to its provider call.
getZAIInstance(r) ==
    IF zaiInstance[req[r].route] = 0
    THEN /\ req' = [req EXCEPT ![r] = [@ EXCEPT !.pc = "creating", !.creates = @ + 1]]
         /\ UNCHANGED <<zaiInstance, nCreated>>
    ELSE /\ CallProvider(r, zaiInstance[req[r].route])
         /\ UNCHANGED <<zaiInstance, nCreated>>

\* POST is invoked and awaits request.json()
POST(r, body) ==
    /\ req[r].pc = "idle"
    /\ req' = [req EXCEPT ![r] = [IdleReq EXCEPT !.route = "generate",
                                                 !.pc = "parsing", !.body = body]]
    /\ UNCHANGED <<zaiInstance, nCreated>>

\* POST after request.json(): validation, then getZAIInstance
generateParsed(r) ==
    /\ req[r].route = "generate"
    /\ req[r].pc = "parsing"
    /\ LET early == generateValidate(req[r].body)
       IN  IF early # NoResponse THEN Respond(r, early) ELSE getZAIInstance(r)

\* GET is invoked: the taskId check, then getZAIInstance
GET(r, tid) ==
    /\ req[r].pc = "idle"
    /\ LET started == [IdleReq EXCEPT !.route = "status", !.tid = tid]
           early == statusValidate(tid)
       IN  IF early # NoResponse
           THEN /\ req' = [req EXCEPT ![r] = [started EXCEPT !.pc = "responded",
                                                             !.response = early]]
                /\ UNCHANGED <<zaiInstance, nCreated>>
           ELSE IF zaiInstance["status"] = 0
           THEN /\ req' = [req EXCEPT ![r] = [started EXCEPT !.pc = "creating",
                                                             !.creates = 1]]
                /\ UNCHANGED <<zaiInstance, nCreated>>
           ELSE /\ req' = [req EXCEPT ![r] = [started EXCEPT !.pc = "calling",
                                                 !.zai = zaiInstance["status"],
                                                 !.calls = 1]]
                /\ UNCHANGED <<zaiInstance, nCreated>>

\* ZAI.create() resolves: the handle is cached and the handler goes on
createResolved(r) ==
    /\ req[r].pc = "creating"
    /\ nCreated' = nCreated + 1
    /\ zaiInstance' = [zaiInstance EXCEPT ![req[r].route] = nCreated + 1]
    /\ CallProvider(r, nCreated + 1)

\* ZAI.create() rejects: the cache stays as it is, the handler's catch answers
createRejected(r, thrown) ==
    /\ req[r].pc = "creating"
    /\ req' = [req EXCEPT ![r] = [@ EXCEPT !.pc = "responded", !.failed = thrown,
                                          !.response = routeCatch(req[r].route, thrown)]]
    /\ UNCHANGED <<zaiInstance, nCreated>>

\* zai.video.generations.create() resolves with the provider's task
generateResolved(r, status) ==
    /\ req[r].route = "generate"
    /\ req[r].pc = "calling"
    /\ Respond(r, generateSuccess(ProviderTask(r, status)))

\* zai.async.result.query() resolves with the provider's result
queryResolved(r, result) ==
    /\ req[r].route = "status"
    /\ req[r].pc = "calling"
    /\ req' = [req EXCEPT ![r] = [@ EXCEPT !.pc = "responded", !.result = result,
                                          !.response = statusSuccess(req[r].tid, result)]]
    /\ UNCHANGED <<zaiInstance, nCreated>>

\* the provider call rejects
callRejected(r, thrown) ==
    /\ req[r].pc = "calling"
    /\ req' = [req EXCEPT ![r] = [@ EXCEPT !.pc = "responded", !.failed = thrown,
                                          !.response = routeCatch(req[r].route, thrown)]]
    /\ UNCHANGED <<zaiInstance, nCreated>>

\* The request bodies tried: every kind of imageData with no option set, and the
\* acceptable image with the options absent, partly set, all set, and set to
\* values that are present but falsy.
ValidImage == Str(<<"data:", "image/", "png", ";base64,", "A">>)

ImageDatas ==
    {Undefined, Null, Str(<<>>), Num(0), Num(5), Str(<<"hello">>), Str(<<"data:">>),
     Str(<<"data:", "text/", "plain", ";base64,", "D">>), ValidImage}

Bodies ==
    {Body(img, Undefined, Undefined, Undefined, Undefined, Undefined) : img \in ImageDatas}
    \cup {Body(ValidImage, Undefined, Undefined, Num(10), Num(60), Str(<<"1920x1080">>)),
          Body(ValidImage, Str(<<"zoom in">>), Str(<<"quality">>), Num(10), Num(60),
               Str(<<"1920x1080">>)),
          Body(ValidImage, Str(<<>>), Null, Num(0), Null, Str(<<>>)),
          Body(Str(<<"hello">>), Str(<<"zoom in">>), Str(<<"quality">>), Num(10),
               Num(60), Str(<<"1920x1080">>)),
          MalformedBody, NullBody}

\* --------------------------------------------------------- specifications
vars == <<pageVars, routeVars>>

Init == PageInit /\ RouteInit

SubmitReplySet == UNION {submitReplies(s, gen[s].body) : s \in Tasks}
StatusReplySet == UNION {statusReplies(t) : t \in Tasks}

PageUser ==
    \/ \E f \in Files : handleImageUpload(f)
    \/ \E f \in Files : handleDrop(f)
    \/ \E i \in 1..Len(readers) : onloadend(i)
    \/ resetUpload
    \/ \E st \in Settings : GenerateEnabled /\ generateVideo(st)

\* The page over every interleaving of the user's actions, the answers and the
\* timers; each poll loop is followed for its first PollWindow + 1 queries.
Next ==
    /\ \/ PageUser
       \/ \E s \in Tasks : \E reply \in SubmitReplySet : submitResponse(s, reply)
       \/ \E t \in Tasks : \E reply \in StatusReplySet : pollResponse(t, reply)
       \/ \E t \in Tasks : gen[t].pollCount <= PollWindow /\ pollTimer(t)
    /\ UNCHANGED routeVars

Spec == Init /\ [][Next]_vars

\* One generation followed to its end: one file read, a single submission, and
\* the poll loop with no cap on its timers.  generateVideo is invoked whether
\* or not the button is enabled, so its own test of uploadedImage is exercised.
NextPoll ==
    /\ \/ \E f \in Files : nUploads = 0 /\ handleImageUpload(f)
       \/ \E i \in 1..Len(readers) : onloadend(i)
       \/ resetUpload
       \/ \E st \in Settings : nSubmit = 0 /\ generateVideo(st)
       \/ \E s \in Tasks : \E reply \in SubmitReplySet : submitResponse(s, reply)
       \/ \E t \in Tasks : \E reply \in StatusReplySet : pollResponse(t, reply)
       \/ \E t \in Tasks : pollTimer(t)
    /\ UNCHANGED routeVars

SpecPoll == Init /\ [][NextPoll]_vars

\* SpecPoll where every status request is eventually answered (fetch settles:
\* the awaited promise resolves or rejects) and every timer set with
\* setTimeout eventually fires (the browser's event loop runs its callback).
PollFairness ==
    \A t \in Tasks :
        /\ WF_vars(/\ \E reply \in StatusReplySet : pollResponse(t, reply)
                   /\ UNCHANGED routeVars)
        /\ WF_vars(pollTimer(t) /\ UNCHANGED routeVars)

SpecPollFair == Init /\ [][NextPoll]_vars /\ PollFairness

\* The generate route module under overlapping requests, over every provider
\* behaviour.
NextGenerate ==
    /\ \/ \E r \in Requests, body \in Bodies : POST(r, body)
       \/ \E r \in Requests : generateParsed(r)
       \/ \E r \in Requests : createResolved(r)
       \/ \E r \in Requests, e \in ProviderThrows : createRejected(r, e)
       \/ \E r \in Requests, st \in InitialStatuses : generateResolved(r, st)
       \/ \E r \in Requests, e \in ProviderThrows : callRejected(r, e)
    /\ UNCHANGED pageVars

SpecGenerate == Init /\ [][NextGenerate]_vars

\* provider results that carry a location under several fields at once; the
\* locations are numbered by the field that carries them
AltUrl(field) == <<"https://provider/alt/", field>>

MixedResults ==
    {QueryResult("SUCCESS", <<AltUrl(1)>>, AltUrl(2), AltUrl(3), AltUrl(4)),
     QueryResult("SUCCESS", <<>>, AltUrl(2), AltUrl(3), AltUrl(4)),
     QueryResult("SUCCESS", <<>>, NoUrl, AltUrl(3), AltUrl(4)),
     QueryResult("SUCCESS", <<NoUrl, AltUrl(1)>>, NoUrl, AltUrl(3), NoUrl),
     QueryResult("PROCESSING", <<>>, AltUrl(2), NoUrl, NoUrl),
     QueryResult("FAIL", <<>>, NoUrl, NoUrl, AltUrl(4))}

\* the provider's answers followed under overlapping requests: one of each
\* status, and the finished task with its location
StatusResults(t) ==
    {QueryResult(st, <<>>, NoUrl, NoUrl, NoUrl) : st \in {"PENDING", "PROCESSING", "FAIL"}}
    \cup {QueryResult("SUCCESS", <<VideoUrlOf(t)>>, NoUrl, NoUrl, NoUrl)}

\* The status route module under overlapping requests, over every provider
\* behaviour.
NextStatus ==
    /\ \/ \E r \in Requests, tid \in Tasks \cup {NoTask} : GET(r, tid)
       \/ \E r \in Requests : req[r].route = "status" /\ createResolved(r)
       \/ \E r \in Requests, e \in ProviderThrows :
             req[r].route = "status" /\ createRejected(r, e)
       \/ \E r \in Requests :
             \E res \in StatusResults(req[r].tid) : queryResolved(r, res)
       \/ \E r \in Requests, e \in ProviderThrows :
             req[r].route = "status" /\ callRejected(r, e)
    /\ UNCHANGED pageVars

SpecStatus == Init /\ [][NextStatus]_vars

\* The status route module with its requests one after the other, over every
\* shape of provider result.
NextInLine(r) ==
    \A q \in Requests :
        /\ q < r => req[q].pc = "responded"
        /\ q > r => req[q].pc = "idle"

NextResolve ==
    /\ \/ \E r \in Requests, tid \in Tasks \cup {NoTask} : NextInLine(r) /\ GET(r, tid)
       \/ \E r \in Requests : createResolved(r)
       \/ \E r \in Requests, e \in ProviderThrows : createRejected(r, e)
       \/ \E r \in Requests :
             \E res \in QueryResults(req[r].tid) \cup MixedResults : queryResolved(r, res)
       \/ \E r \in Requests, e \in ProviderThrows : callRejected(r, e)
    /\ UNCHANGED pageVars

SpecResolve == Init /\ [][NextResolve]_vars

\* Both route modules under overlapping, validly formed requests, over every
\* provider behaviour.
NextRoutes ==
    /\ \/ \E r \in Requests :
             POST(r, Body(ValidImage, Undefined, Undefined, Undefined, Undefined, Undefined))
       \/ \E r \in Requests : generateParsed(r)
       \/ \E r \in Requests, tid \in Tasks : GET(r, tid)
       \/ \E r \in Requests : createResolved(r)
       \/ \E r \in Requests, e \in ProviderThrows : createRejected(r, e)
       \/ \E r \in Requests, st \in InitialStatuses : generateResolved(r, st)
       \/ \E r \in Requests :
             \E res \in StatusResults(req[r].tid) : queryResolved(r, res)
       \/ \E r \in Requests, e \in ProviderThrows : callRejected(r, e)
    /\ UNCHANGED pageVars

SpecRoutes == Init /\ [][NextRoutes]_vars

\* ------------------------------------------------------------------ claims
Polling(pc) == pc \in {"fetching", "timer"}

\* C1: once resetUpload has run during task t's poll loop, no answer to a status
\* query for t changes generatedVideoUrl, taskId or generateState.
C1_ResetShieldsSession ==
    [][\A t \in Tasks :
          (Polling(cancelled[t]) /\ gen[t].pc = "fetching" /\ gen'[t].pc # "fetching")
              => UNCHANGED <<generatedVideoUrl, taskId, generateState>>]_vars

\* C2: once resetUpload has run during task t's poll loop, no further status
\* query is issued for t.
C2_NoQueryAfterReset ==
    [][\A t \in Tasks : Polling(cancelled[t]) => queries'[t] = queries[t]]_vars

\* C3: there is never more than one active poll loop (a pending timer or an
\* outstanding status query) and never more than one outstanding submission.
C3_OneTaskInFlight ==
    /\ Cardinality({t \in Tasks : Polling(gen[t].pc)}) <= 1
    /\ Cardinality({t \in Tasks : gen[t].pc = "posting"}) <= 1

\* C4: the answer to a submission that was outstanding when resetUpload ran sets
\* neither taskId nor isPolling nor progress, and starts no poll loop.
C4_LateSubmitResponseIgnored ==
    [][\A s \in Tasks :
          (cancelled[s] = "posting" /\ gen[s].pc = "posting" /\ gen'[s].pc # "posting")
              => /\ taskId' = taskId
                 /\ generateState'.isPolling = generateState.isPolling
                 /\ generateState'.progress = generateState.progress
                 /\ ~Polling(gen'[s].pc)
                 /\ queries'[s] = queries[s]]_vars

\* C5: at most maxPolls = 200 status queries are issued for one task.
C5_AtMostMaxPollsQueries == \A t \in Tasks : queries[t] <= maxPolls

\* C6: a poll loop times out exactly when its 200th answer did not resolve, and
\* the failure notice then names 10.0 minutes.  (Every query issued for the task
\* has been answered without resolving when the loop times out, so queries[t]
\* counts the unresolved attempts.)
C6_TimeoutAfter200Attempts ==
    [][\A t \in Tasks :
          (gen[t].pc = "fetching" /\ gen'[t].pc = "done"
              /\ toast'.description.text = TimedOutText)
              => /\ queries[t] = maxPolls
                 /\ toast'.description.minutes = <<10, 0>>]_vars

\* C7: the progress estimate written for a task starts at 20, never decreases
\* from one poll iteration to the next, stays within 20..90, and the session's
\* progress becomes 100 only in the step that processes a SUCCESS answer
\* carrying a video URL.
C7_ProgressEstimate ==
    /\ [](\A t \in Tasks :
            estimate[t] = 0 \/ (Pct(20) <= estimate[t] /\ estimate[t] <= Pct(90)))
    /\ [][\A t \in Tasks :
             Polling(gen'[t].pc) =>
                /\ estimate'[t] >= estimate[t]
                /\ gen'[t].pollCount <= 1 => estimate'[t] = Pct(20)]_vars
    /\ [][(generateState'.progress = Pct(100) /\ generateState.progress # Pct(100))
             => \E t \in Tasks :
                   /\ gen[t].pc = "fetching"
                   /\ gen'[t].pc = "done"
                   /\ toast'.title = "Success!"
                   /\ generatedVideoUrl' = VideoUrlOf(t)]_vars

\* C7 witness: a loop about to issue its last query, its estimate just under 90
C7_Witness ==
    \E t \in Tasks :
        /\ gen[t].pc = "timer"
        /\ gen[t].pollCount = maxPolls
        /\ estimate[t] = pollProgress(maxPolls - 1)
        /\ generateState.progress = estimate[t]

Missing(v) == v \in {Undefined, Null, Str(<<>>)}

IsImageDataUrl(v) == v.t = "string" /\ StartsWith(v.s, DataImagePrefix)

\* C9: a request whose imageData is present but no image data URL is answered
\* 400 with an error text, never 200 or 500, and makes no provider call.
C9_NonImageRejected ==
    \A r \in Requests :
        (req[r].route = "generate" /\ req[r].body.kind = "object"
            /\ ~Missing(req[r].body.imageData)
            /\ ~IsImageDataUrl(req[r].body.imageData))
        => /\ req[r].creates = 0
           /\ req[r].calls = 0
           /\ req[r].pc = "responded"
                => (req[r].response.code = 400 /\ req[r].response.error # "")

OptionFields == {"prompt", "quality", "duration", "fps", "size"}

DefaultOf(f) ==
    CASE f = "prompt" -> Str(<<"Make this image come alive with smooth, loopable motion">>)
      [] f = "quality" -> Str(<<"speed">>)
      [] f = "duration" -> Num(5)
      [] f = "fps" -> Num(30)
      [] f = "size" -> Str(<<"1024x1024">>)

Forwarded(r) == req[r].route = "generate" /\ req[r].calls > 0

\* C10 as stated: image_url is imageData, and each option is the request's
\* value when the field is present, its default exactly when it is absent.
C10_DefaultsOnlyWhenAbsent ==
    \A r \in Requests :
        Forwarded(r) =>
            /\ req[r].params.image_url = req[r].body.imageData
            /\ \A f \in OptionFields :
                  /\ req[r].body[f] # Undefined => req[r].params[f] = req[r].body[f]
                  /\ req[r].body[f] = Undefined => req[r].params[f] = DefaultOf(f)

\* C10 amended: image_url is imageData, and each option is the request's value
\* when that value is truthy, its default when the field is absent or falsy
\* (null, "", 0).
C10_DefaultsWhenFalsy ==
    \A r \in Requests :
        Forwarded(r) =>
            /\ req[r].params.image_url = req[r].body.imageData
            /\ \A f \in OptionFields :
                  /\ Truthy(req[r].body[f]) => req[r].params[f] = req[r].body[f]
                  /\ ~Truthy(req[r].body[f]) => req[r].params[f] = DefaultOf(f)

\* C10 witness: parameters forwarded for a body with a present but falsy option
\* beside one with a truthy option
C10_Witness ==
    /\ \E r \in Requests :
          /\ Forwarded(r)
          /\ req[r].body.prompt = Str(<<>>)
          /\ req[r].params.prompt = DefaultOf("prompt")
    /\ \E r \in Requests :
          /\ Forwarded(r)
          /\ req[r].body.duration = Num(10)
          /\ req[r].params.duration = Num(10)

\* the four places of a provider result a location may be in, in the order
\* video_result[0].url, video_url, url, video
Locations(result) ==
    <<IF result.video_result = <<>> THEN NoUrl ELSE result.video_result[1],
      result.video_url, result.url, result.video>>

Answered200(r) ==
    req[r].route = "status" /\ req[r].pc = "responded" /\ req[r].response.code = 200

\* C11: for a provider result with status SUCCESS the videoUrl of the response
\* is the first non-empty of video_result[0].url, video_url, url, video, as it
\* is in the result.
C11_FirstNonEmptyLocation ==
    \A r \in Requests :
        (Answered200(r) /\ req[r].result.task_status = "SUCCESS") =>
            \A i \in 1..4 :
                (/\ Locations(req[r].result)[i] # NoUrl
                 /\ \A j \in 1..(i - 1) : Locations(req[r].result)[j] = NoUrl)
                => req[r].response.videoUrl = Locations(req[r].result)[i]

\* C11 witness: a result with all four fields set answered with the wrapped
\* one, after a result with only the last field set answered with that one
C11_Witness ==
    /\ \E r \in Requests :
          /\ Answered200(r)
          /\ \A i \in 1..4 : Locations(req[r].result)[i] = AltUrl(i)
          /\ req[r].response.videoUrl = AltUrl(1)
    /\ \E r \in Requests :
          /\ Answered200(r)
          /\ \A i \in 1..3 : Locations(req[r].result)[i] = NoUrl
          /\ req[r].result.video # NoUrl
          /\ req[r].response.videoUrl = req[r].result.video

\* C12: a 200 response echoes the requested taskId and the provider's
\* task_status, and carries videoUrl exactly when the status is SUCCESS and one
\* of the four location fields is non-empty.
C12_VideoUrlOnlyOnSuccess ==
    \A r \in Requests :
        Answered200(r) =>
            /\ req[r].response.taskId = req[r].tid
            /\ req[r].response.status = req[r].result.task_status
            /\ req[r].response.videoUrl # NoUrl
                  <=> /\ req[r].result.task_status = "SUCCESS"
                      /\ \E i \in 1..4 : Locations(req[r].result)[i] # NoUrl

\* C12 witness: an unfinished task whose result carries a location, answered
\* with no videoUrl
C12_Witness ==
    \E r \in Requests :
        /\ Answered200(r)
        /\ req[r].result.task_status \in {"PENDING", "PROCESSING", "FAIL"}
        /\ \E i \in 1..4 : Locations(req[r].result)[i] # NoUrl
        /\ req[r].response.videoUrl = NoUrl
        /\ req[r].response.taskId = req[r].tid

StatusDone(r) == req[r].route = "status" /\ req[r].pc = "responded"

\* C13 as stated: an invocation with a taskId has made exactly one result query
\* when it answers; one without has made none, answers 400 with an error text
\* and makes no ZAI.create() call.
C13_QueryExactlyOnce ==
    \A r \in Requests :
        StatusDone(r) =>
            IF req[r].tid # NoTask
            THEN req[r].calls = 1
            ELSE /\ req[r].calls = 0
                 /\ req[r].creates = 0
                 /\ req[r].response.code = 400
                 /\ req[r].response.error # ""

\* C13 amended: an invocation with a taskId makes at most one result query,
\* exactly one unless ZAI.create() failed for it; one without makes none,
\* answers 400 with an error text, makes no ZAI.create() call and leaves the
\* cached client as it is.
C13_QueryOnceUnlessCreateFails ==
    /\ [](\A r \in Requests :
            req[r].route = "status" =>
                /\ req[r].calls <= 1
                /\ StatusDone(r) =>
                      IF req[r].tid # NoTask
                      THEN /\ req[r].calls = 0 <=> req[r].zai = 0
                           /\ req[r].zai = 0 =>
                                 /\ req[r].creates = 1
                                 /\ req[r].failed # NoThrow
                                 /\ req[r].response.code = 500
                      ELSE /\ req[r].calls = 0
                           /\ req[r].creates = 0
                           /\ req[r].response.code = 400
                           /\ req[r].response.error # "")
    /\ [][\A r \in Requests :
             (req'[r].route = "status" /\ req[r].pc = "idle" /\ req'[r].tid = NoTask)
                => UNCHANGED <<zaiInstance, nCreated>>]_vars

\* C13 witness: an invocation without taskId answered while a client is cached,
\* beside one with a taskId answered after its one query
C13_Witness ==
    /\ zaiInstance["status"] # 0
    /\ \E r \in Requests :
          /\ StatusDone(r)
          /\ req[r].tid = NoTask
          /\ req[r].response.code = 400
    /\ \E r \in Requests :
          /\ StatusDone(r)
          /\ req[r].tid # NoTask
          /\ req[r].calls = 1
          /\ req[r].response.code = 200

\* the generic text of each route's 500
GenericFailure(route) ==
    IF route = "generate" THEN "Failed to create video generation task"
    ELSE "Failed to query video generation status"

\* C14: a request in which a provider call (ZAI.create(), the generation call,
\* the result query) failed answers 500 with the thrown Error's message, or the
\* route's generic text when there is none; it has made no call twice, and once
\* it has answered nothing of it changes (no retry, no 200).
C14_ProviderFailureIs500 ==
    /\ [](\A r \in Requests :
            req[r].failed # NoThrow =>
                /\ req[r].pc = "responded"
                /\ req[r].response.code = 500
                /\ req[r].response.error =
                      IF req[r].failed.isError THEN req[r].failed.message
                      ELSE GenericFailure(req[r].route)
                /\ req[r].response.error # ""
                /\ req[r].creates <= 1
                /\ req[r].calls <= 1)
    /\ [][\A r \in Requests : req[r].failed # NoThrow => req'[r] = req[r]]_vars

\* C14 witness: a result query that threw an Error and a generation call that
\* threw a value that is no Error, both answered 500
C14_Witness ==
    /\ \E r \in Requests :
          /\ StatusDone(r)
          /\ req[r].calls = 1
          /\ req[r].failed = Thrown(TRUE, "quota exceeded")
          /\ req[r].response = ErrorResponse(500, "quota exceeded")
    /\ \E r \in Requests :
          /\ req[r].route = "generate"
          /\ req[r].calls = 1
          /\ req[r].failed = Thrown(FALSE, "")
          /\ req[r].response.code = 500

\* the step delivers the answer to generation t's outstanding request
DeliversTo(t, op, pc) ==
    event'.op = op /\ event'.task = t /\ gen[t].pc = pc

\* the answers that end a generation in failure: no response or a non-OK one,
\* status FAIL, or an unresolved answer at the attempt ceiling
SubmitFailed(reply) == reply.rejected \/ ~Ok(reply.resp)

PollSucceeded(reply) ==
    /\ ~reply.rejected
    /\ Ok(reply.resp)
    /\ reply.resp.status = "SUCCESS"
    /\ reply.resp.videoUrl # NoUrl

PollFailed(reply, pollCount) ==
    \/ reply.rejected
    \/ ~Ok(reply.resp)
    \/ reply.resp.status = "FAIL"
    \/ pollCount >= maxPolls /\ ~PollSucceeded(reply)

\* a generation that has ended makes no further request and sets no timer
DoneIsFinal == \A t \in Tasks : gen[t].pc = "done" => gen'[t].pc = "done"

\* C15: a failed submission, a non-OK or failed status query, a FAIL status and
\* an unresolved answer at the attempt ceiling each end the generation: no
\* timer, no further request, isGenerating and isPolling false, progress 0, and
\* generatedVideoUrl as it was.
C15_ErrorsAreTerminal ==
    /\ [][\A t \in Tasks :
             (\/ DeliversTo(t, "submitResponse", "posting") /\ SubmitFailed(event'.reply)
              \/ /\ DeliversTo(t, "pollResponse", "fetching")
                 /\ PollFailed(event'.reply, gen[t].pollCount))
             => /\ gen'[t].pc = "done"
                /\ ~generateState'.isGenerating
                /\ ~generateState'.isPolling
                /\ generateState'.progress = 0
                /\ generatedVideoUrl' = generatedVideoUrl
                /\ toast'.variant = "destructive"]_vars
    /\ [][DoneIsFinal]_vars

\* C15 witness: a generation ended by the attempt ceiling
C15_Witness ==
    \E t \in Tasks :
        /\ gen[t].pc = "done"
        /\ event.op = "pollResponse"
        /\ event.task = t
        /\ event.reply.resp.status = "PENDING"
        /\ toast.description.text = TimedOutText
        /\ generateState = IdleState
        /\ generatedVideoUrl = NoUrl

\* C16: an answer SUCCESS with a URL sets generatedVideoUrl to that URL,
\* progress to 100, isGenerating and isPolling to false and ends the loop; an
\* answer SUCCESS without a URL sets neither progress 100 nor a URL; and
\* whenever progress is 100, generatedVideoUrl is non-empty.
C16_SuccessNeedsUrl ==
    /\ [][\A t \in Tasks :
             DeliversTo(t, "pollResponse", "fetching") =>
                /\ PollSucceeded(event'.reply) =>
                      /\ generatedVideoUrl' = event'.reply.resp.videoUrl
                      /\ generateState'.progress = Pct(100)
                      /\ ~generateState'.isGenerating
                      /\ ~generateState'.isPolling
                      /\ gen'[t].pc = "done"
                /\ ~PollSucceeded(event'.reply) =>
                      /\ generateState'.progress # Pct(100)
                      /\ generatedVideoUrl' = generatedVideoUrl]_vars
    /\ [][DoneIsFinal]_vars
    /\ [](generateState.progress = Pct(100) => generatedVideoUrl # NoUrl)

\* C16 witness: the session after a SUCCESS answer with a URL
C16_Witness ==
    \E t \in Tasks :
        /\ gen[t].pc = "done"
        /\ event.op = "pollResponse"
        /\ event.task = t
        /\ PollSucceeded(event.reply)
        /\ generatedVideoUrl = VideoUrlOf(t)
        /\ generateState.progress = Pct(100)

\* C17: the step that completes an upload sets uploadedImage to the image read
\* and clears generatedVideoUrl, taskId and generateState; and no answer for a
\* generation that was in flight when an upload completed changes
\* generatedVideoUrl, taskId or generateState afterwards.
C17_UploadClearsForGood ==
    /\ [][Len(readers') < Len(readers) =>
             /\ \E i \in 1..Len(readers) : uploadedImage' = readAsDataURL(readers[i])
             /\ generatedVideoUrl' = NoUrl
             /\ taskId' = NoTask
             /\ generateState' = IdleState]_vars
    /\ [][\A t \in superseded :
             (DeliversTo(t, "submitResponse", "posting")
                 \/ DeliversTo(t, "pollResponse", "fetching"))
             => UNCHANGED <<generatedVideoUrl, taskId, generateState>>]_vars

Invalid(file) == file.size > MaxFileSize \/ ~StartsWith(file.type, ImagePrefix)

\* C18: an invalid file offered to the file input or dropped raises a
\* rejection notice, starts no read and leaves uploadedImage,
\* generatedVideoUrl, taskId and generateState as they were.
C18_InvalidFileRejected ==
    [][(event'.op \in {"handleImageUpload", "handleDrop"} /\ Invalid(event'.file))
          => /\ toast'.variant = "destructive"
             /\ toast'.title # ""
             /\ UNCHANGED <<uploadedImage, generatedVideoUrl, taskId, generateState,
                            readers>>]_vars

\* C19: generateVideo invoked while no image is held sends no request, starts
\* no poll loop and leaves uploadedImage, generatedVideoUrl, taskId and
\* generateState as they were.
C19_NoImageNoSubmission ==
    [][(event'.op = "generateVideo" /\ uploadedImage = NoImage)
          => UNCHANGED <<uploadedImage, generatedVideoUrl, taskId, generateState,
                         gen, nSubmit, queries>>]_vars

\* C19 witness: the notice raised by such an invocation, nothing submitted
C19_Witness ==
    /\ event.op = "generateVideo"
    /\ uploadedImage = NoImage
    /\ toast.title = "No image uploaded"
    /\ nSubmit = 0
    /\ \A t \in Tasks : gen[t].pc = "idle"

\* C20: the step that processes a 2xx answer to the submission sets taskId to
\* the returned id, isPolling and isGenerating true, progress 20, and issues the
\* first status query for that task; and no task has a status query issued
\* unless its poll loop runs.
C20_SubmissionStartsPolling ==
    /\ [][\A s \in Tasks :
             (DeliversTo(s, "submitResponse", "posting") /\ ~SubmitFailed(event'.reply))
             => /\ taskId' = event'.reply.resp.taskId
                /\ taskId' = s
                /\ generateState'.isPolling
                /\ generateState'.isGenerating
                /\ generateState'.progress = Pct(20)
                /\ gen'[s].pc = "fetching"
                /\ queries'[s] = 1]_vars
    /\ [](\A t \in Tasks : queries[t] > 0 => Polling(gen[t].pc))

\* the outcomes of the step that ends a poll loop
EndsSucceeded == toast'.title = "Success!" /\ generateState'.progress = Pct(100)

EndsFailed ==
    /\ toast'.variant = "destructive"
    /\ toast'.description.text # TimedOutText
    /\ generateState'.progress = 0

EndsTimedOut ==
    /\ toast'.variant = "destructive"
    /\ toast'.description.text = TimedOutText
    /\ generateState'.progress = 0

\* C21: when every status request is eventually answered and every timer
\* eventually fires, a poll loop that has started eventually stops, whatever
\* statuses the provider reports (SUCCESS without a URL and endless PENDING or
\* PROCESSING included): its attempt counter never passes maxPolls, the step
\* that stops it is the answer to a status query and has exactly one of the
\* outcomes succeeded, failed and timed out, the last only at the ceiling,
\* and a stopped loop stays stopped.
C21_PollLoopStops ==
    /\ \A t \in Tasks : Polling(gen[t].pc) ~> gen[t].pc = "done"
    /\ [](\A t \in Tasks : gen[t].pollCount <= maxPolls)
    /\ [][\A t \in Tasks :
             Polling(gen[t].pc) /\ ~Polling(gen'[t].pc) =>
                /\ DeliversTo(t, "pollResponse", "fetching")
                /\ gen'[t].pc = "done"
                /\ \/ EndsSucceeded /\ ~EndsFailed /\ ~EndsTimedOut
                   \/ ~EndsSucceeded /\ EndsFailed /\ ~EndsTimedOut
                   \/ ~EndsSucceeded /\ ~EndsFailed /\ EndsTimedOut
                /\ EndsTimedOut => gen[t].pollCount = maxPolls]_vars
    /\ [][DoneIsFinal]_vars

\* C21 witness: a loop stopped at the ceiling by a provider that answered
\* SUCCESS without a URL to the last attempt
C21_Witness ==
    \E t \in Tasks :
        /\ gen[t].pc = "done"
        /\ event.op = "pollResponse"
        /\ event.task = t
        /\ event.reply.resp.status = "SUCCESS"
        /\ event.reply.resp.videoUrl = NoUrl
        /\ toast.description.text = TimedOutText

\* the requests of a route module whose ZAI.create() was called and has not
\* rejected
Created(route) ==
    {r \in Requests : /\ req[r].route = route
                      /\ req[r].creates > 0
                      /\ ~(req[r].zai = 0 /\ req[r].failed # NoThrow)}

\* C22: in each route module, over every interleaving of its requests,
\* ZAI.create() is called at most once unless it rejects, and all requests use
\* the same client handle; a rejected creation leaves the cache unset, and a
\* request that then reaches getZAIInstance calls ZAI.create() again.
C22_ClientCreatedOnce ==
    /\ [](\A route \in Routes :
            /\ Cardinality(Created(route)) <= 1
            /\ \A r, q \in Requests :
                  (/\ req[r].route = route
                   /\ req[q].route = route
                   /\ req[r].zai # 0
                   /\ req[q].zai # 0) => req[r].zai = req[q].zai)
    /\ [][\A r \in Requests :
             /\ (req[r].pc = "creating" /\ req'[r].pc = "responded")
                   => zaiInstance' = zaiInstance
             /\ (/\ req[r].pc # "creating"
                 /\ req'[r].pc # req[r].pc
                 /\ req'[r].pc \in {"creating", "calling"}
                 /\ zaiInstance[req'[r].route] = 0)
                   => req'[r].pc = "creating" /\ req'[r].creates = 1]_vars

====
